---- MODULE Spec2Model ----
(***************************************************************************)
(* A model of sopel/loader.py: module discovery (enumerate_modules),       *)
(* docstring trimming (trim_docstring), callable classification            *)
(* (clean_module) and recursive reloading (reload_all).                    *)
(*                                                                         *)
(* Python strings are modelled as sequences of one-character strings, so   *)
(* that startswith / endswith / slicing / splitlines are computed and not  *)
(* assumed.  Python's None is modelled as the empty tuple << >> where the  *)
(* code only tests truthiness.                                             *)
(***************************************************************************)
EXTENDS Integers, Sequences, FiniteSets, TLC

VARIABLES
    \* ---- enumerate_modules ----
    fs,             \* the filesystem: files, dirs, listing
    sopel_modules,  \* sopel_modules.__path__, or "ImportError"
    config,         \* config.homedir, config.core.extra / enable / exclude
    show_all,       \* the show_all argument
    modules,        \* the local `modules` as it stands after line 97
    enum_ret,       \* the value returned by enumerate_modules
    enum_pc,        \* "call" | "returned" | "raised"
    \* ---- trim_docstring ----
    doc,            \* the text given to trim_docstring
    trimmed,        \* the lines trim_docstring(doc) returns
    rejoined,       \* '\n'.join(trimmed)
    retrimmed,      \* trim_docstring(rejoined)
    trim_pc,        \* "call" | "trimmed" | "rejoined" | "done"
    \* ---- clean_module ----
    module_vars,    \* the values of vars(module), in order: the module's members
    callables,      \* the four lists clean_module returns, as indices of members
    jobs,
    shutdowns,
    urls,
    clean_pc,       \* "call" | "done"
    \* ---- reload_all ----
    objects,        \* the objects in memory: type, __file__, __dict__ of each
    top_module,     \* the arguments of reload_all
    max_depth,
    raise_immediately,
    pre_reload,     \* whether a pre_reload callback is given
    reload_if,      \* "None", or the predicate given
    stack,          \* the active trace_reload calls: module, depth, next attribute
    for_reload,     \* the dict for_reload, in insertion order
    reload_list,
    idx,            \* the position of the reload loop in reload_list
    not_reloaded,
    reload_if_calls, \* the calls made to reload_if: <<module, depth>>
    reload_calls,   \* the calls made to pre_reload and _reload, in order
    rpc             \* "call" | "trace" | "reload" | "returned" | "raised"

enum_vars == <<fs, sopel_modules, config, show_all, modules, enum_ret, enum_pc>>
trim_vars == <<doc, trimmed, rejoined, retrimmed, trim_pc>>
clean_vars == <<module_vars, callables, jobs, shutdowns, urls, clean_pc>>
reload_args == <<objects, top_module, max_depth, raise_immediately, pre_reload, reload_if>>
reload_vars == <<reload_args, stack, for_reload, reload_list, idx, not_reloaded,
                 reload_if_calls, reload_calls, rpc>>

(***************************************************************************)
(* Strings and os.path                                                     *)
(***************************************************************************)

startswith(s, p) == Len(s) >= Len(p) /\ SubSeq(s, 1, Len(p)) = p

endswith(s, p) == Len(s) >= Len(p) /\ SubSeq(s, Len(s) - Len(p) + 1, Len(s)) = p

\* os.path.join(a, b) for POSIX paths
path_join(a, b) ==
    IF startswith(b, <<"/">>) THEN b
    ELSE IF a = <<>> \/ endswith(a, <<"/">>) THEN a \o b
    ELSE a \o <<"/">> \o b

\* os.path.basename(p): what follows the last "/"
basename(p) ==
    LET slashes == {i \in 1..Len(p) : p[i] = "/"}
        last == IF slashes = {} THEN 0
                ELSE CHOOSE i \in slashes : \A j \in slashes : j <= i
    IN SubSeq(p, last + 1, Len(p))

DotPy == <<".", "p", "y">>
InitPy == <<"_", "_", "i", "n", "i", "t", "_", "_", ".", "p", "y">>
ModulesName == <<"m", "o", "d", "u", "l", "e", "s">>
CoretasksName == <<"c", "o", "r", "e", "t", "a", "s", "k", "s">>
CoretasksPy == CoretasksName \o DotPy

\* os.path.dirname(os.path.abspath(__file__)): where the sopel package lives
main_dir == <<"/", "s">>
modules_dir == path_join(main_dir, ModulesName)
ct_path == path_join(main_dir, CoretasksPy)

(***************************************************************************)
(* The filesystem.  fs.files and fs.dirs are the paths of the regular      *)
(* files and of the directories that exist; fs.listing maps a directory to *)
(* the names os.listdir returns for it, in the order it returns them.      *)
(***************************************************************************)

isdir(tree, p) == p \in tree.dirs

isfile(tree, p) == p \in tree.files

\* os.listdir(d) of an existing directory
listdir(tree, d) == tree.listing[d]

(***************************************************************************)
(* get_module_description and _update_modules_from_dir                     *)
(***************************************************************************)

None == <<>>

get_module_description(tree, path) ==
    LET good_file == /\ isfile(tree, path)
                     /\ endswith(path, DotPy)
                     /\ ~startswith(path, <<"_">>)
        good_dir == /\ isdir(tree, path)
                    /\ isfile(tree, path_join(path, InitPy))
    IN IF good_file
         THEN <<SubSeq(basename(path), 1, Len(basename(path)) - 3), path, "PY_SOURCE">>
       ELSE IF good_dir
         THEN <<basename(path), path, "PKG_DIRECTORY">>
       ELSE None

\* modules[key] = value on a dict modelled as a function
DictSet(d, key, value) ==
    [k \in DOMAIN d \cup {key} |-> IF k = key THEN value ELSE d[k]]

\* del d[key]
DictDel(d, key) == [k \in DOMAIN d \ {key} |-> d[k]]

\* a variant that keeps the entry a name already has (first write wins)
UpdateFirstWins(mods, result) ==
    IF result[1] \in DOMAIN mods THEN mods
    ELSE DictSet(mods, result[1], <<result[2], result[3]>>)

\* line 47: the body of the loop of _update_modules_from_dir for one candidate
UpdateEntry(mods, result) == DictSet(mods, result[1], <<result[2], result[3]>>)

RECURSIVE UpdateLoop(_, _, _, _)
UpdateLoop(tree, mods, directory, names) ==
    IF names = <<>> THEN mods
    ELSE LET path == path_join(directory, Head(names))
             result == get_module_description(tree, path)
         IN UpdateLoop(tree,
                       IF result # None THEN UpdateEntry(mods, result) ELSE mods,
                       directory, Tail(names))

\* A call's outcome: a value, or an exception that propagates
Ok(v) == [raised |-> FALSE, value |-> v]
Raise(e) == [raised |-> TRUE, value |-> e]

\* a variant that passes over a directory that does not exist
UpdateSkipMissing(tree, mods, directory) ==
    IF ~isdir(tree, directory) THEN Ok(mods)
    ELSE Ok(UpdateLoop(tree, mods, directory, listdir(tree, directory)))

\* _update_modules_from_dir: os.listdir raises OSError on a missing directory
update_modules_from_dir(tree, mods, directory) ==
    IF ~isdir(tree, directory) THEN Raise("OSError")
    ELSE Ok(UpdateLoop(tree, mods, directory, listdir(tree, directory)))

\* a run of _update_modules_from_dir calls over a list of directories
RECURSIVE UpdateDirs(_, _, _)
UpdateDirs(tree, mods, dirs) ==
    IF dirs = <<>> THEN Ok(mods)
    ELSE LET r == update_modules_from_dir(tree, mods, Head(dirs))
         IN IF r.raised THEN r ELSE UpdateDirs(tree, r.value, Tail(dirs))

(***************************************************************************)
(* enumerate_modules                                                       *)
(***************************************************************************)

home_modules_dir == path_join(config.homedir, ModulesName)

\* lines 86-88: the home modules directory is created when it is missing
MakeHome(tree) ==
    IF isdir(tree, home_modules_dir) THEN tree
    ELSE [files |-> tree.files,
          dirs |-> tree.dirs \cup {config.homedir, home_modules_dir},
          listing |-> [d \in DOMAIN tree.listing \cup {home_modules_dir} |->
                         IF d = home_modules_dir THEN <<>> ELSE tree.listing[d]]]

\* lines 77-83: the installed-package directories, none when the import fails
PackageDirs == IF sopel_modules = "ImportError" THEN <<>> ELSE sopel_modules

\* lines 68-93: the directories in the order they are scanned
ScanOrder == <<modules_dir>> \o PackageDirs \o <<home_modules_dir>> \o config.extra

\* lines 66-97: the registry of every module found, coretasks forced in last
Scanned(tree) ==
    LET r == UpdateDirs(tree, <<>>, ScanOrder)
    IN IF r.raised THEN r
       ELSE Ok(DictSet(r.value, CoretasksName, <<ct_path, "PY_SOURCE">>))

\* lines 104-110: the whitelist
RECURSIVE EnableLoop(_, _, _)
EnableLoop(mods, enabled_modules, enable) ==
    IF enable = {} THEN enabled_modules
    ELSE LET module == CHOOSE m \in enable : TRUE
         IN EnableLoop(mods,
                       IF module \in DOMAIN mods
                         THEN DictSet(enabled_modules, module, mods[module])
                         ELSE enabled_modules,
                       enable \ {module})

\* a variant that does not restrict the registry to the enabled names
WhitelistIgnored(mods, enable) == mods

ApplyWhitelist(mods, enable) ==
    IF enable # {}
      THEN EnableLoop(mods, DictSet(<<>>, CoretasksName, mods[CoretasksName]), enable)
      ELSE mods

\* lines 113-116: the blacklist
RECURSIVE ApplyBlacklist(_, _)
ApplyBlacklist(mods, exclude) ==
    IF exclude = {} THEN mods
    ELSE LET module == CHOOSE m \in exclude : TRUE
         IN ApplyBlacklist(IF module \in DOMAIN mods THEN DictDel(mods, module) ELSE mods,
                           exclude \ {module})

\* lines 99-118
Filtered(mods) ==
    IF show_all THEN mods
    ELSE ApplyBlacklist(ApplyWhitelist(mods, config.enable), config.exclude)

enumerate_modules ==
    /\ enum_pc = "call"
    /\ LET tree == MakeHome(fs)
           r == Scanned(tree)
       IN /\ fs' = tree
          /\ IF r.raised
               THEN /\ enum_pc' = "raised"
                    /\ modules' = <<>>
                    /\ enum_ret' = r.value
               ELSE /\ enum_pc' = "returned"
                    /\ modules' = r.value
                    /\ enum_ret' = Filtered(r.value)
    /\ UNCHANGED <<sopel_modules, config, show_all>>
    /\ UNCHANGED <<trim_vars, clean_vars, reload_vars>>

(***************************************************************************)
(* The inputs of enumerate_modules                                         *)
(***************************************************************************)

MaxExtra == 2
MaxList == 2

A == <<"a">>
B == <<"b">>
APy == A \o DotPy
BPy == B \o DotPy
PrivatePy == <<"_", "x">> \o DotPy
PrivateName == <<"_", "x">>

HomeDir == <<"/", "h">>
HomeModules == path_join(HomeDir, ModulesName)
PackageDir == <<"/", "p">>
ExtraAbs == <<"/", "e">>
ExtraRel == <<"_", "e">>
ExtraGone == <<"/", "g", "o", "n", "e">>

ExtraPool == {ExtraAbs, ExtraRel, ExtraGone}
NamePool == {A, B, CoretasksName, PrivateName}

\* A directory's content is given as a sequence of entries: File is a
\* regular file, Pkg a directory holding an __init__.py, Dir an empty directory.
File(n) == [name |-> n, type |-> "file"]
Pkg(n) == [name |-> n, type |-> "pkg"]
Dir(n) == [name |-> n, type |-> "dir"]

HomeListings ==
    { <<File(APy), File(PrivatePy)>>,
      <<Pkg(B), Dir(<<"c">>), File(<<"n", ".", "t", "x", "t">>), File(CoretasksPy)>> }

\* the directories that always exist, each with its content
BaseTree ==
    [d \in {modules_dir, PackageDir, ExtraAbs, ExtraRel} |->
        IF d = modules_dir THEN <<File(InitPy), File(APy), File(BPy)>>
        ELSE IF d = PackageDir THEN <<Pkg(A), File(BPy)>>
        ELSE IF d = ExtraAbs THEN <<Pkg(A), File(APy), File(PrivatePy)>>
        ELSE <<File(APy), Pkg(B)>>]

WithHome(listing) ==
    [d \in DOMAIN BaseTree \cup {HomeModules} |->
        IF d = HomeModules THEN listing ELSE BaseTree[d]]

\* the filesystem holding the directories of `tree`
MkFs(tree) ==
    LET E(d) == {tree[d][i] : i \in 1..Len(tree[d])}
    IN [files |-> UNION {{path_join(d, e.name) : e \in {x \in E(d) : x.type = "file"}}
                         \cup {path_join(path_join(d, e.name), InitPy) :
                                  e \in {x \in E(d) : x.type = "pkg"}} : d \in DOMAIN tree},
        dirs |-> DOMAIN tree
                 \cup UNION {{path_join(d, e.name) :
                                e \in {x \in E(d) : x.type # "file"}} : d \in DOMAIN tree},
        listing |-> [d \in DOMAIN tree |-> [i \in 1..Len(tree[d]) |-> tree[d][i].name]]]

SeqsUpTo(S, n) == UNION {[1..k -> S] : k \in 0..n}
SetsUpTo(S, n) == {T \in SUBSET S : Cardinality(T) <= n}

Filesystems == {MkFs(BaseTree)} \cup {MkFs(WithHome(l)) : l \in HomeListings}

\* the inputs for the scan: every list of extra directories, few filter lists
ScanInit ==
    /\ fs \in Filesystems
    /\ sopel_modules \in {"ImportError", <<PackageDir>>}
    /\ config \in [homedir : {HomeDir},
                   extra : SeqsUpTo(ExtraPool, MaxExtra),
                   enable : {{}, {A}},
                   exclude : {{}, {B}}]
    /\ show_all \in BOOLEAN
    /\ modules = <<>>
    /\ enum_ret = <<>>
    /\ enum_pc = "call"

\* the inputs for the filters: every allow-list and deny-list, few extras
EnumInit ==
    /\ fs \in Filesystems
    /\ sopel_modules \in {"ImportError", <<PackageDir>>}
    /\ config \in [homedir : {HomeDir},
                   extra : {<<>>, <<ExtraAbs>>, <<ExtraGone>>},
                   enable : SetsUpTo(NamePool, MaxList),
                   exclude : SetsUpTo(NamePool, MaxList)]
    /\ show_all \in BOOLEAN
    /\ modules = <<>>
    /\ enum_ret = <<>>
    /\ enum_pc = "call"

(***************************************************************************)
(* Properties of enumerate_modules                                         *)
(***************************************************************************)

Returned == enum_pc = "returned"

\* C1: every call of enumerate_modules returns a registry that contains
\* 'coretasks', whatever core.enable, core.exclude and show_all are; a
\* deny-list naming 'coretasks' does not remove it.
C1_CoretasksAlwaysPresent ==
    Returned => CoretasksName \in DOMAIN enum_ret

\* the names a directory contributes: those get_module_description derives
\* from the entries os.listdir reports for it
FoundIn(d) ==
    {get_module_description(fs, path_join(d, fs.listing[d][i]))[1] :
        i \in {j \in 1..Len(fs.listing[d]) :
                 get_module_description(fs, path_join(d, fs.listing[d][j])) # None}}

\* the locations a directory offers for the name X
LocationsIn(d, X) ==
    {<<path_join(d, fs.listing[d][i]),
       get_module_description(fs, path_join(d, fs.listing[d][i]))[3]>> :
        i \in {j \in 1..Len(fs.listing[d]) :
                 /\ get_module_description(fs, path_join(d, fs.listing[d][j])) # None
                 /\ get_module_description(fs, path_join(d, fs.listing[d][j]))[1] = X}}

\* the documented order: built-in directory, installed packages, home, extras
C2_Order ==
    <<path_join(main_dir, ModulesName)>>
    \o (IF sopel_modules = "ImportError" THEN <<>> ELSE sopel_modules)
    \o <<path_join(config.homedir, ModulesName)>>
    \o config.extra

C2_LastIndex(X) ==
    CHOOSE i \in 1..Len(C2_Order) :
        /\ X \in FoundIn(C2_Order[i])
        /\ \A j \in 1..Len(C2_Order) : X \in FoundIn(C2_Order[j]) => j <= i

\* C2: the directories are scanned built-in, installed packages, home, then
\* the extras in the order given, and the registry entry of every name other
\* than 'coretasks' is a location in the last scanned directory that holds
\* the name (last write wins over the whole scan).
C2_LastScannedWins ==
    Returned =>
        /\ DOMAIN modules \ {CoretasksName}
              = UNION {FoundIn(C2_Order[i]) : i \in 1..Len(C2_Order)} \ {CoretasksName}
        /\ \A X \in DOMAIN modules \ {CoretasksName} :
              modules[X] \in LocationsIn(C2_Order[C2_LastIndex(X)], X)

\* a name held by two different scanned directories, registered from the later
C2_Witness ==
    /\ Returned
    /\ \E i, j \in 1..Len(C2_Order) :
          /\ i < j
          /\ C2_Order[i] # C2_Order[j]
          /\ A \in FoundIn(C2_Order[i])
          /\ A \in FoundIn(C2_Order[j])
          /\ C2_LastIndex(A) = j
          /\ j > Len(C2_Order) - Len(config.extra)
          /\ modules[A] \in LocationsIn(C2_Order[j], A)
          /\ modules[A] \notin LocationsIn(C2_Order[i], A)

\* C3: with show_all false the returned names are ({coretasks} \cup (enable
\* \cap registry)) minus exclude when enable is non-empty, and the registry
\* minus exclude when enable is empty; each keeps its registry location.
C3_AllowDeny ==
    (Returned /\ ~show_all) =>
        /\ DOMAIN enum_ret =
              (IF config.enable # {}
                 THEN {CoretasksName} \cup (config.enable \cap DOMAIN modules)
                 ELSE DOMAIN modules) \ config.exclude
        /\ \A n \in DOMAIN enum_ret : enum_ret[n] = modules[n]

\* enable = {a}, exclude = {a}, registry holding a and b
C3_Witness ==
    /\ Returned /\ ~show_all
    /\ config.enable = {A} /\ config.exclude = {A}
    /\ {A, B} \subseteq DOMAIN modules
    /\ DOMAIN enum_ret = {CoretasksName}

MissingExtra == \E i \in 1..Len(config.extra) : ~isdir(fs, config.extra[i])

\* the registry the remaining locations would give if missing ones were skipped
RECURSIVE SkippingDirs(_, _, _)
SkippingDirs(tree, mods, dirs) ==
    IF dirs = <<>> THEN mods
    ELSE SkippingDirs(tree, UpdateSkipMissing(tree, mods, Head(dirs)).value, Tail(dirs))

\* C8 as stated: an extra directory that does not exist is skipped, no error
\* is raised and the registry of the remaining locations is returned.
C8_MissingExtraSkipped ==
    (enum_pc # "call" /\ MissingExtra) =>
        /\ Returned
        /\ modules = DictSet(SkippingDirs(fs, <<>>, C2_Order),
                             CoretasksName, <<ct_path, "PY_SOURCE">>)

\* C8 amended: an extra directory that does not exist makes the call fail
\* with the OSError of os.listdir; no registry is returned, whatever
\* show_all and the lists are.
C8_MissingExtraRaises ==
    (enum_pc # "call" /\ MissingExtra) =>
        /\ enum_pc = "raised"
        /\ enum_ret = "OSError"

C8_Witness ==
    /\ enum_pc = "raised"
    /\ Len(config.extra) = 2
    /\ config.extra[1] = ExtraAbs
    /\ config.extra[2] = ExtraGone

\* C9: a registered source file has a name that ends with '.py' and does
\* not start with '_'; a file '_x.py' of a scanned directory is never
\* registered.
C9_PrivateFilesIgnored ==
    Returned =>
        \A X \in DOMAIN modules :
            modules[X][2] = "PY_SOURCE" =>
                /\ endswith(basename(modules[X][1]), DotPy)
                /\ ~startswith(basename(modules[X][1]), <<"_">>)

(***************************************************************************)
(* trim_docstring                                                          *)
(***************************************************************************)

\* the default tab size of str.expandtabs
TabSize == 8

Spaces(n) == [i \in 1..n |-> " "]

\* str.expandtabs(): a tab becomes the spaces that reach the next tab stop;
\* the column restarts after a line break
RECURSIVE expandtabs(_, _)
expandtabs(s, col) ==
    IF s = <<>> THEN <<>>
    ELSE IF Head(s) = "\t"
      THEN Spaces(TabSize - (col % TabSize)) \o expandtabs(Tail(s), 0)
    ELSE IF Head(s) = "\n"
      THEN <<"\n">> \o expandtabs(Tail(s), 0)
    ELSE <<Head(s)>> \o expandtabs(Tail(s), col + 1)

\* str.splitlines(): the lines without their line breaks; a final line break
\* opens no further line
RECURSIVE splitlines(_)
splitlines(s) ==
    IF s = <<>> THEN <<>>
    ELSE LET breaks == {i \in 1..Len(s) : s[i] = "\n"}
         IN IF breaks = {} THEN <<s>>
            ELSE LET nl == CHOOSE i \in breaks : \A j \in breaks : i <= j
                 IN <<SubSeq(s, 1, nl - 1)>> \o splitlines(SubSeq(s, nl + 1, Len(s)))

Whitespace == {" ", "\t", "\n"}

RECURSIVE lstrip(_)
lstrip(s) == IF s # <<>> /\ Head(s) \in Whitespace THEN lstrip(Tail(s)) ELSE s

RECURSIVE rstrip(_)
rstrip(s) ==
    IF s # <<>> /\ s[Len(s)] \in Whitespace THEN rstrip(SubSeq(s, 1, Len(s) - 1)) ELSE s

strip(s) == rstrip(lstrip(s))

\* line[start:]
SliceFrom(line, start) == SubSeq(line, start + 1, Len(line))

\* lines 126-130: the indentations of the non-blank lines after the first;
\* `indent` is their minimum and stays sys.maxsize when there is none
Indents(lines) ==
    {Len(lines[i]) - Len(lstrip(lines[i])) :
        i \in {j \in 2..Len(lines) : lstrip(lines[j]) # <<>>}}

\* lines 135-136
RECURSIVE PopTrailingBlank(_)
PopTrailingBlank(t) ==
    IF t # <<>> /\ t[Len(t)] = <<>> THEN PopTrailingBlank(SubSeq(t, 1, Len(t) - 1)) ELSE t

\* lines 137-138
RECURSIVE PopLeadingBlank(_)
PopLeadingBlank(t) ==
    IF t # <<>> /\ Head(t) = <<>> THEN PopLeadingBlank(Tail(t)) ELSE t

trim_docstring(d) ==
    IF d = <<>> THEN <<>>
    ELSE LET lines == splitlines(expandtabs(d, 0))
             first == <<strip(lines[1])>>
             rest == IF Indents(lines) # {}
                       THEN [i \in 1..(Len(lines) - 1) |-> rstrip(SliceFrom(lines[i + 1], 0))]
                       ELSE <<>>
         IN PopLeadingBlank(PopTrailingBlank(first \o rest))

\* '\n'.join(lines)
RECURSIVE join_lines(_)
join_lines(lines) ==
    IF lines = <<>> THEN <<>>
    ELSE IF Len(lines) = 1 THEN lines[1]
    ELSE lines[1] \o <<"\n">> \o join_lines(Tail(lines))

\* trim_docstring(doc), then the lines joined with newlines, then trimmed again
TrimCall ==
    /\ trim_pc = "call"
    /\ trimmed' = trim_docstring(doc)
    /\ trim_pc' = "trimmed"
    /\ UNCHANGED <<doc, rejoined, retrimmed>>
    /\ UNCHANGED <<enum_vars, clean_vars, reload_vars>>

Rejoin ==
    /\ trim_pc = "trimmed"
    /\ rejoined' = join_lines(trimmed)
    /\ trim_pc' = "rejoined"
    /\ UNCHANGED <<doc, trimmed, retrimmed>>
    /\ UNCHANGED <<enum_vars, clean_vars, reload_vars>>

TrimAgain ==
    /\ trim_pc = "rejoined"
    /\ retrimmed' = trim_docstring(rejoined)
    /\ trim_pc' = "done"
    /\ UNCHANGED <<doc, trimmed, rejoined>>
    /\ UNCHANGED <<enum_vars, clean_vars, reload_vars>>

TrimNext == TrimCall \/ Rejoin \/ TrimAgain

MaxDocLen == 4

DocChars == {"a", " ", "\t", "\n"}

\* a missing docstring (None) and the empty string are both << >>
TrimInit ==
    /\ doc \in SeqsUpTo(DocChars, MaxDocLen)
    /\ trimmed = <<>>
    /\ rejoined = <<>>
    /\ retrimmed = <<>>
    /\ trim_pc = "call"

TrimIdle ==
    /\ doc = <<>>
    /\ trimmed = <<>>
    /\ rejoined = <<>>
    /\ retrimmed = <<>>
    /\ trim_pc = "idle"

EnumIdle ==
    /\ fs = <<>>
    /\ sopel_modules = "ImportError"
    /\ config = <<>>
    /\ show_all = FALSE
    /\ modules = <<>>
    /\ enum_ret = <<>>
    /\ enum_pc = "idle"

\* C6: trimming, joining the lines with newlines and trimming again gives
\* the lines of the first trimming.
C6_TrimIdempotent ==
    trim_pc = "done" => retrimmed = trimmed

(***************************************************************************)
(* clean_callable and clean_module.  A member of a module is an object     *)
(* with its attributes: `callable` is callable(obj), `name` is             *)
(* getattr(obj, '__name__', None), `attrs` the names hasattr finds.        *)
(***************************************************************************)

hasattr(obj, attr) == attr \in obj.attrs

TriggerAttrs == {"rule", "intents", "commands", "nickname_commands"}

is_triggerable(obj) == \E attr \in TriggerAttrs : hasattr(obj, attr)

\* the attributes clean_callable sets on every object it cleans
DefaultAttrs ==
    {"_docs", "unblockable", "priority", "thread", "rate", "channel_rate",
     "global_rate", "event"}

\* lines 142-194: func.rule is set when commands or nickname_commands are
clean_callable(obj) ==
    [obj EXCEPT !.attrs =
        @ \cup DefaultAttrs
          \cup (IF hasattr(obj, "commands") \/ hasattr(obj, "nickname_commands")
                  THEN {"rule"} ELSE {})]

\* a variant that tests the trigger attributes before the shutdown name
RoleTriggerFirst(obj) ==
    IF ~obj.callable THEN "none"
    ELSE IF is_triggerable(obj) THEN "callable"
    ELSE IF obj.name = "shutdown" THEN "shutdown"
    ELSE IF hasattr(obj, "interval") THEN "job"
    ELSE IF hasattr(obj, "url_regex") THEN "url"
    ELSE "none"

\* lines 221-231: the branch taken for one member
Role(obj) ==
    IF ~obj.callable THEN "none"
    ELSE IF obj.name = "shutdown" THEN "shutdown"
    ELSE IF is_triggerable(obj) THEN "callable"
    ELSE IF hasattr(obj, "interval") THEN "job"
    ELSE IF hasattr(obj, "url_regex") THEN "url"
    ELSE "none"

\* lines 220-231: the loop over the members from index i on; st holds the
\* members (cleaned in place) and the four lists
RECURSIVE CleanLoop(_, _)
CleanLoop(st, i) ==
    IF i > Len(st.members) THEN st
    ELSE LET obj == st.members[i]
             role == Role(obj)
         IN CleanLoop(
              [members |-> IF role \in {"callable", "job"}
                             THEN [st.members EXCEPT ![i] = clean_callable(obj)]
                             ELSE st.members,
               callables |-> IF role = "callable" THEN Append(st.callables, i)
                             ELSE st.callables,
               jobs |-> IF role = "job" THEN Append(st.jobs, i) ELSE st.jobs,
               shutdowns |-> IF role = "shutdown" THEN Append(st.shutdowns, i)
                             ELSE st.shutdowns,
               urls |-> IF role = "url" THEN Append(st.urls, i) ELSE st.urls],
              i + 1)

clean_module ==
    /\ clean_pc = "call"
    /\ LET st == CleanLoop([members |-> module_vars, callables |-> <<>>, jobs |-> <<>>,
                            shutdowns |-> <<>>, urls |-> <<>>], 1)
       IN /\ module_vars' = st.members
          /\ callables' = st.callables
          /\ jobs' = st.jobs
          /\ shutdowns' = st.shutdowns
          /\ urls' = st.urls
    /\ clean_pc' = "done"
    /\ UNCHANGED <<enum_vars, trim_vars, reload_vars>>

MaxMembers == 2

\* the attribute sets of the members: every mix of rule, commands, interval
\* and url_regex, and intents or nickname_commands with interval and url_regex
AttrSets ==
    SUBSET {"rule", "commands", "interval", "url_regex"}
    \cup {{x} \cup S : x \in {"intents", "nickname_commands"},
                       S \in SUBSET {"interval", "url_regex"}}

MemberPool ==
    [callable : {TRUE}, name : {"shutdown", "f"}, attrs : AttrSets]
    \cup [callable : {FALSE}, name : {"shutdown", "f"},
          attrs : {{"rule", "commands", "interval", "url_regex"}}]

CleanInit ==
    /\ module_vars \in SeqsUpTo(MemberPool, MaxMembers)
    /\ callables = <<>>
    /\ jobs = <<>>
    /\ shutdowns = <<>>
    /\ urls = <<>>
    /\ clean_pc = "call"

CleanIdle ==
    /\ module_vars = <<>>
    /\ callables = <<>>
    /\ jobs = <<>>
    /\ shutdowns = <<>>
    /\ urls = <<>>
    /\ clean_pc = "idle"

Elems(seq) == {seq[i] : i \in 1..Len(seq)}

\* how often member i occurs in the four lists together
Occurrences(i) ==
    Cardinality({<<l, k>> \in {1, 2, 3, 4} \X (1..Len(module_vars)) :
        LET list == IF l = 1 THEN shutdowns ELSE IF l = 2 THEN callables
                    ELSE IF l = 3 THEN jobs ELSE urls
        IN k <= Len(list) /\ list[k] = i})

\* C7: every callable member is in at most one of the four lists, chosen
\* by the precedence shutdown name > trigger attribute > interval >
\* url_regex; members that are not callable are in none.
C7_FirstMatchRole ==
    clean_pc = "done" =>
        \A i \in 1..Len(module_vars) :
            LET obj == module_vars[i]
                named == obj.name = "shutdown"
                trigger == obj.attrs \cap {"rule", "intents", "commands",
                                           "nickname_commands"} # {}
            IN /\ Occurrences(i) <= 1
               /\ i \in Elems(shutdowns) <=> (obj.callable /\ named)
               /\ i \in Elems(callables) <=> (obj.callable /\ ~named /\ trigger)
               /\ i \in Elems(jobs) <=>
                     (obj.callable /\ ~named /\ ~trigger /\ "interval" \in obj.attrs)
               /\ i \in Elems(urls) <=>
                     (obj.callable /\ ~named /\ ~trigger /\ "interval" \notin obj.attrs
                        /\ "url_regex" \in obj.attrs)

\* a member named shutdown carrying a rule, and one with a rule and an interval
C7_Witness ==
    /\ clean_pc = "done"
    /\ Len(module_vars) = 2
    /\ module_vars[1].callable /\ module_vars[1].name = "shutdown"
    /\ "rule" \in module_vars[1].attrs
    /\ shutdowns = <<1>>
    /\ module_vars[2].callable /\ module_vars[2].name = "f"
    /\ {"commands", "interval"} \subseteq module_vars[2].attrs
    /\ callables = <<2>> /\ jobs = <<>> /\ urls = <<>>

(***************************************************************************)
(* reload_all.  objects[m].type is "module" for a ModuleType object,       *)
(* objects[m].file is hasattr(m, '__file__'), objects[m].dict lists the    *)
(* values of m.__dict__ in order.                                          *)
(***************************************************************************)

Nodes == {"top", "M1", "M2", "obj"}

Max(S) == CHOOSE x \in S : \A y \in S : y <= x
Min(S) == CHOOSE x \in S : \A y \in S : x <= y

\* the predicates a caller may give as reload_if
ReloadIfAccepts(m, depth) ==
    IF reload_if = "always" THEN TRUE
    ELSE IF reload_if = "not_M1" THEN m # "M1"
    ELSE depth <= 2

\* for_reload.get(m, default)
DictGet(fr, m, default) ==
    IF \E i \in 1..Len(fr) : fr[i].k = m
      THEN fr[CHOOSE i \in 1..Len(fr) : fr[i].k = m].v
      ELSE default

\* for_reload[m] = v: a new key is added last, a known key keeps its place
DictPut(fr, m, v) ==
    IF \E i \in 1..Len(fr) : fr[i].k = m
      THEN [i \in 1..Len(fr) |-> IF fr[i].k = m THEN [k |-> m, v |-> v] ELSE fr[i]]
      ELSE Append(fr, [k |-> m, v |-> v])

\* a variant whose depth limit is inclusive
ExaminedInclusive(m, depth) == objects[m].type = "module" /\ depth <= max_depth

\* line 256: the node is looked at when it is a module within the depth limit
Examined(m, depth) == objects[m].type = "module" /\ depth < max_depth

\* lines 262-263
Record(fr, m, depth) ==
    IF DictGet(fr, m, 0) < depth /\ objects[m].file THEN DictPut(fr, m, depth) ELSE fr

\* lines 254-263 of a call trace_reload(m, d): what the call does before its
\* loop over the attributes, given the stack, for_reload and the calls so far
Enter(m, d, stk, fr, log) ==
    LET depth == d + 1
    IN IF ~Examined(m, depth)
         THEN [stack |-> stk, for_reload |-> fr, log |-> log]
       ELSE IF reload_if # "None" /\ ~ReloadIfAccepts(m, depth)
         THEN [stack |-> stk, for_reload |-> fr, log |-> Append(log, <<m, depth>>)]
       ELSE [stack |-> Append(stk, [module |-> m, depth |-> depth, i |-> 1]),
             for_reload |-> Record(fr, m, depth),
             log |-> IF reload_if # "None" THEN Append(log, <<m, depth>>) ELSE log]

\* lines 251, 270: trace_reload(top_module, 0)
TraceStart ==
    /\ rpc = "call"
    /\ LET r == Enter(top_module, 0, <<>>, <<>>, <<>>)
       IN /\ stack' = r.stack
          /\ for_reload' = r.for_reload
          /\ reload_if_calls' = r.log
    /\ rpc' = "trace"
    /\ UNCHANGED <<reload_args, reload_list, idx, not_reloaded, reload_calls>>
    /\ UNCHANGED <<enum_vars, trim_vars, clean_vars>>

\* lines 266-267: the innermost call passes its next attribute to trace_reload
TraceAttr ==
    /\ rpc = "trace"
    /\ stack # <<>>
    /\ LET f == stack[Len(stack)]
       IN /\ f.i <= Len(objects[f.module].dict)
          /\ LET r == Enter(objects[f.module].dict[f.i], f.depth,
                            [stack EXCEPT ![Len(stack)].i = f.i + 1],
                            for_reload, reload_if_calls)
             IN /\ stack' = r.stack
                /\ for_reload' = r.for_reload
                /\ reload_if_calls' = r.log
    /\ UNCHANGED <<reload_args, reload_list, idx, not_reloaded, reload_calls, rpc>>
    /\ UNCHANGED <<enum_vars, trim_vars, clean_vars>>

\* the innermost call has gone through its attributes and returns
TraceReturn ==
    /\ rpc = "trace"
    /\ stack # <<>>
    /\ stack[Len(stack)].i > Len(objects[stack[Len(stack)].module].dict)
    /\ stack' = SubSeq(stack, 1, Len(stack) - 1)
    /\ UNCHANGED <<reload_args, for_reload, reload_list, idx, not_reloaded,
                   reload_if_calls, reload_calls, rpc>>
    /\ UNCHANGED <<enum_vars, trim_vars, clean_vars>>

\* a variant that sorts without reverse=True
RECURSIVE SortedAscending(_)
SortedAscending(fr) ==
    IF fr = <<>> THEN <<>>
    ELSE LET low == Min({fr[i].v : i \in 1..Len(fr)})
             IsLow(e) == e.v = low
             NotLow(e) == e.v # low
             firsts == SelectSeq(fr, IsLow)
         IN [i \in 1..Len(firsts) |-> firsts[i].k] \o SortedAscending(SelectSeq(fr, NotLow))

\* line 271: sorted(for_reload, reverse=True, key=...): the keys by descending
\* depth, keys of equal depth in the order the dict holds them
RECURSIVE SortedReloadList(_)
SortedReloadList(fr) ==
    IF fr = <<>> THEN <<>>
    ELSE LET high == Max({fr[i].v : i \in 1..Len(fr)})
             IsHigh(e) == e.v = high
             NotHigh(e) == e.v # high
             firsts == SelectSeq(fr, IsHigh)
         IN [i \in 1..Len(firsts) |-> firsts[i].k] \o SortedReloadList(SelectSeq(fr, NotHigh))

\* lines 271-272
StartReload ==
    /\ rpc = "trace"
    /\ stack = <<>>
    /\ reload_list' = SortedReloadList(for_reload)
    /\ not_reloaded' = <<>>
    /\ idx' = 1
    /\ rpc' = "reload"
    /\ UNCHANGED <<reload_args, stack, for_reload, reload_if_calls, reload_calls>>
    /\ UNCHANGED <<enum_vars, trim_vars, clean_vars>>

\* lines 275-276
WithPreReload(log, m) ==
    IF pre_reload THEN Append(log, [fn |-> "pre_reload", module |-> m, outcome |-> "-"])
    ELSE log

\* lines 274-279: _reload(module) succeeds
ReloadOk ==
    /\ rpc = "reload"
    /\ idx <= Len(reload_list)
    /\ reload_calls' = Append(WithPreReload(reload_calls, reload_list[idx]),
                              [fn |-> "_reload", module |-> reload_list[idx],
                               outcome |-> "ok"])
    /\ idx' = idx + 1
    /\ UNCHANGED <<reload_args, stack, for_reload, reload_list, not_reloaded,
                   reload_if_calls, rpc>>
    /\ UNCHANGED <<enum_vars, trim_vars, clean_vars>>

Exceptions == {"ImportError", "SyntaxError"}

\* a variant that drops the failure
OnErrorForget(nr, m, exc) == nr

\* line 283: not_reloaded[module] = sys.exc_info()[0]
OnError(nr, m, exc) == DictSet(nr, m, exc)

\* lines 274-283: _reload(module) raises an Exception
ReloadFails ==
    /\ rpc = "reload"
    /\ idx <= Len(reload_list)
    /\ \E exc \in Exceptions :
          /\ reload_calls' = Append(WithPreReload(reload_calls, reload_list[idx]),
                                    [fn |-> "_reload", module |-> reload_list[idx],
                                     outcome |-> exc])
          /\ IF raise_immediately
               THEN /\ rpc' = "raised"
                    /\ UNCHANGED <<idx, not_reloaded>>
               ELSE /\ not_reloaded' = OnError(not_reloaded, reload_list[idx], exc)
                    /\ idx' = idx + 1
                    /\ UNCHANGED rpc
    /\ UNCHANGED <<reload_args, stack, for_reload, reload_list, reload_if_calls>>
    /\ UNCHANGED <<enum_vars, trim_vars, clean_vars>>

\* line 285: return not_reloaded
ReloadReturn ==
    /\ rpc = "reload"
    /\ idx > Len(reload_list)
    /\ rpc' = "returned"
    /\ UNCHANGED <<reload_args, stack, for_reload, reload_list, idx, not_reloaded,
                   reload_if_calls, reload_calls>>
    /\ UNCHANGED <<enum_vars, trim_vars, clean_vars>>

ReloadNext ==
    \/ TraceStart
    \/ TraceAttr
    \/ TraceReturn
    \/ StartReload
    \/ ReloadOk
    \/ ReloadFails
    \/ ReloadReturn

MaxMaxDepth == 4

ModuleOf(file, dict) == [type |-> "module", file |-> file, dict |-> dict]
Other == [type |-> "other", file |-> FALSE, dict |-> <<>>]

\* the objects: top, M1 and M2 refer to each other in several ways (a chain,
\* a diamond, cycles), each with or without a __file__; top may be no module
Heaps ==
    {[n \in Nodes |-> IF n = "top" THEN t ELSE IF n = "M1" THEN m1
                      ELSE IF n = "M2" THEN m2 ELSE Other] :
        t \in {ModuleOf(f, d) : f \in BOOLEAN,
                                d \in {<<"M1">>, <<"M2", "M1">>, <<"obj", "M1", "M2">>}}
              \cup {[type |-> "other", file |-> TRUE, dict |-> <<"M1">>]},
        m1 \in {ModuleOf(f, d) : f \in BOOLEAN, d \in {<<>>, <<"M2">>, <<"top", "M2">>}},
        m2 \in {ModuleOf(f, d) : f \in BOOLEAN, d \in {<<>>, <<"M1">>, <<"obj">>}}}

ReloadInit ==
    /\ objects \in Heaps
    /\ top_module = "top"
    /\ max_depth \in 1..MaxMaxDepth
    /\ raise_immediately \in BOOLEAN
    /\ pre_reload \in BOOLEAN
    /\ reload_if \in {"None", "always", "not_M1", "shallow"}
    /\ stack = <<>>
    /\ for_reload = <<>>
    /\ reload_list = <<>>
    /\ idx = 0
    /\ not_reloaded = <<>>
    /\ reload_if_calls = <<>>
    /\ reload_calls = <<>>
    /\ rpc = "call"

ReloadIdle ==
    /\ objects = <<>>
    /\ top_module = "top"
    /\ max_depth = 0
    /\ raise_immediately = FALSE
    /\ pre_reload = FALSE
    /\ reload_if = "None"
    /\ stack = <<>>
    /\ for_reload = <<>>
    /\ reload_list = <<>>
    /\ idx = 0
    /\ not_reloaded = <<>>
    /\ reload_if_calls = <<>>
    /\ reload_calls = <<>>
    /\ rpc = "idle"

(***************************************************************************)
(* Properties of reload_all                                                *)
(***************************************************************************)

Successors(S) == {c \in Nodes : \E p \in S : c \in Elems(objects[p].dict)}

\* the nodes k reference steps away from the root
RECURSIVE Reach(_)
Reach(k) == IF k = 0 THEN {top_module} ELSE Successors(Reach(k - 1))

Accepted(m, d) == reload_if = "None" \/ ReloadIfAccepts(m, d)

\* the modules the trace looks at with depth d, given those it looked at
\* with depth d - 1: the successors of those reload_if accepted
LookedAtFrom(before, d) ==
    {m \in (IF d = 1 THEN {top_module}
            ELSE Successors({p \in before : Accepted(p, d - 1)})) :
        objects[m].type = "module" /\ d < max_depth}

\* <<the modules looked at with depth 1, ..., those looked at with depth d>>
RECURSIVE LookedLevels(_)
LookedLevels(d) ==
    IF d = 0 THEN <<>>
    ELSE LET before == LookedLevels(d - 1)
         IN Append(before, LookedAtFrom(IF d = 1 THEN {} ELSE before[d - 1], d))

TraceDone == rpc \in {"reload", "returned", "raised"}

Keys(fr) == {fr[i].k : i \in 1..Len(fr)}

\* the modules handed to _reload, in the order of the calls
Attempts ==
    LET IsReload(c) == c.fn = "_reload"
        rs == SelectSeq(reload_calls, IsReload)
    IN [i \in 1..Len(rs) |-> rs[i].module]

\* C4: a file-backed module is recorded with the greatest depth at which
\* the trace visited it, and the modules are reloaded by descending recorded
\* depth: a module of greater recorded depth is reloaded before one of lesser.
C4_DeepestFirst ==
    TraceDone =>
        LET looked == LookedLevels(max_depth)
            depths == [m \in Nodes |->
                         {d \in 1..max_depth : m \in looked[d] /\ Accepted(m, d)}]
            deepest == [m \in Nodes |-> IF depths[m] = {} THEN 0 ELSE Max(depths[m])]
        IN /\ Keys(for_reload) = {m \in Nodes : objects[m].file /\ depths[m] # {}}
           /\ \A i, j \in 1..Len(for_reload) : for_reload[i].k = for_reload[j].k => i = j
           /\ \A i \in 1..Len(for_reload) : for_reload[i].v = deepest[for_reload[i].k]
           /\ \A i, j \in 1..Len(Attempts) :
                 deepest[Attempts[i]] > deepest[Attempts[j]] => i < j
           /\ rpc = "returned" =>
                 /\ Len(Attempts) = Len(for_reload)
                 /\ Elems(Attempts) = Keys(for_reload)

\* top refers to M1 only, M1 to M2 only: M2, then M1, then top
C4_Witness ==
    /\ rpc = "returned"
    /\ objects["top"].dict = <<"M1">>
    /\ objects["M1"].dict = <<"M2">>
    /\ objects["M2"].dict = <<>>
    /\ Attempts = <<"M2", "M1", "top">>

FailedCalls == {c \in Elems(reload_calls) : c.fn = "_reload" /\ c.outcome # "ok"}

\* C5: with raise_immediately false the call returns, _reload is attempted
\* on every module of the reload list in its order, and the returned dict
\* maps exactly the modules whose _reload failed to their exceptions.
C5_FailuresCollected ==
    ~raise_immediately =>
        /\ rpc # "raised"
        /\ rpc = "returned" =>
              /\ Attempts = reload_list
              /\ DOMAIN not_reloaded = {c.module : c \in FailedCalls}
              /\ \A c \in FailedCalls : not_reloaded[c.module] = c.outcome

\* three modules to reload, the first fails, the two after it are reloaded
C5_Witness ==
    /\ rpc = "returned"
    /\ ~raise_immediately
    /\ Len(reload_list) = 3
    /\ Attempts = reload_list
    /\ DOMAIN not_reloaded = {reload_list[1]}
    /\ \E c \in Elems(reload_calls) :
          c.fn = "_reload" /\ c.module = reload_list[3] /\ c.outcome = "ok"

\* C10 as stated: the root is visited with depth 0 and a node k steps from
\* the root with depth k, so that a file-backed root is recorded and reloaded
\* when max_depth is 1.
C10_DepthFromZero ==
    /\ \A i \in 1..Len(reload_if_calls) :
          reload_if_calls[i][1] \in Reach(reload_if_calls[i][2])
    /\ \A i \in 1..Len(for_reload) : for_reload[i].k \in Reach(for_reload[i].v)
    /\ (/\ rpc = "returned"
        /\ max_depth = 1
        /\ objects[top_module].type = "module"
        /\ objects[top_module].file
        /\ reload_if \in {"None", "always"})
         => top_module \in Elems(Attempts)

\* the depths of the trace: the root has depth 1, a node k steps from the
\* root depth k + 1, and a module is looked at exactly when that is < max_depth
C10_Depths ==
    /\ Len(stack) < Max({max_depth, 2})
    /\ \A j \in 1..Len(stack) : stack[j].depth = j
    /\ \A i \in 1..Len(reload_if_calls) :
          LET m == reload_if_calls[i][1]
              d == reload_if_calls[i][2]
          IN d >= 1 /\ d < max_depth /\ objects[m].type = "module" /\ m \in Reach(d - 1)
    /\ \A i \in 1..Len(for_reload) :
          LET m == for_reload[i].k
              d == for_reload[i].v
          IN d >= 1 /\ d < max_depth /\ m \in Reach(d - 1)
    /\ TraceDone =>
          LET looked == LookedLevels(max_depth)
          IN IF reload_if # "None"
               THEN Elems(reload_if_calls)
                      = {<<m, d>> \in Nodes \X (1..max_depth) : m \in looked[d]}
               ELSE {<<for_reload[i].k, for_reload[i].v>> : i \in 1..Len(for_reload)}
                      = {<<m, d>> \in Nodes \X (1..max_depth) :
                            /\ m \in looked[d] /\ objects[m].file
                            /\ \A e \in (d + 1)..max_depth : m \notin looked[e]}
    /\ max_depth = 1 => (for_reload = <<>> /\ reload_calls = <<>>)

\* C10 amended: the trace visits the root with depth 1 and a node reached by
\* k reference steps with depth k + 1 (the depth passed to reload_if and
\* recorded); a module is looked at exactly when that depth is < max_depth
\* and expanded when reload_if, if given, accepts it; so max_depth = 1 records
\* and reloads nothing (a file-backed root needs max_depth >= 2); the trace
\* ends on every reference graph, cyclic ones included.
C10_DepthFromOne == []C10_Depths /\ <>TraceDone

\* a cycle top -> M1 -> top traced to depth 3 and left, the root reloaded
C10_Witness ==
    /\ rpc = "returned"
    /\ objects["top"].dict = <<"M1">>
    /\ objects["M1"].dict = <<"top", "M2">>
    /\ max_depth = 4
    /\ reload_if = "always"
    /\ {<<"top", 1>>, <<"M1", 2>>, <<"top", 3>>} \subseteq Elems(reload_if_calls)
    /\ "top" \in Elems(Attempts)

vars == <<enum_vars, trim_vars, clean_vars, reload_vars>>

InitScan == ScanInit /\ TrimIdle /\ CleanIdle /\ ReloadIdle

InitEnum == EnumInit /\ TrimIdle /\ CleanIdle /\ ReloadIdle

InitTrim == EnumIdle /\ TrimInit /\ CleanIdle /\ ReloadIdle

InitClean == EnumIdle /\ TrimIdle /\ CleanInit /\ ReloadIdle

InitReload == EnumIdle /\ TrimIdle /\ CleanIdle /\ ReloadInit

SpecScan == InitScan /\ [][enumerate_modules]_vars

SpecEnum == InitEnum /\ [][enumerate_modules]_vars

SpecTrim == InitTrim /\ [][TrimNext]_vars

SpecClean == InitClean /\ [][clean_module]_vars

\* reload_all runs to its end: a step that can be taken is taken
SpecReload == InitReload /\ [][ReloadNext]_vars /\ WF_vars(ReloadNext)

====
